---- MODULE Spec2Model ----
(***************************************************************************)
(* llm-gateway: the quota-checked forwarding path of src/main.go.          *)
(* Each request is one run of handleForwardToEndpoint; requests run        *)
(* concurrently and share the api_keys table.                              *)
(***************************************************************************)
EXTENDS Integers, Sequences, FiniteSets, TLC

\* ------------------------------------------------------------------ bounds
NumReqs == 2
MaxCalls == 2
MaxBody == 3

\* --------------------------------------------------------------- constants
StatusOK == 200
StatusBadRequest == 400
StatusUnauthorized == 401
StatusForbidden == 403
StatusMethodNotAllowed == 405
StatusInternalServerError == 500
StatusServiceUnavailable == 503

Reqs == 1..NumReqs
LedgerKeys == {"abc", "xyz"}
HeaderKeys == LedgerKeys \cup {"", "nokey"}
Methods == {"POST", "GET"}
NL == "\n"
Bytes == {"a", "b", NL}

RECURSIVE SeqsUpTo(_, _)
SeqsUpTo(S, n) ==
  IF n = 0 THEN {<<>>}
  ELSE LET shorter == SeqsUpTo(S, n - 1)
       IN shorter \cup {Append(s, x) : s \in {t \in shorter : Len(t) = n - 1}, x \in S}

Bodies == SeqsUpTo(Bytes, MaxBody)
ShortBodies == {<<"a", NL>>}

\* const model, location (main.go) and the GC_PROJECT_ID of the environment
Model == "claude-3-5-sonnet@20240620"
Location == "us-east5"
ProjectID == "proj-1"
Paths == {"/", "/health"}
UpstreamCodes == {StatusOK, StatusInternalServerError}

\* what the upstream may answer: a status code and a body
ShortResps == [code : {StatusOK}, body : ShortBodies]
Resps == [code : UpstreamCodes, body : Bodies]

\* the token endpoint's answer to the exchange, and whether the private key parses:
\* a body is valid JSON or not, and carries the fields of its object
TokenBodies ==
  { [json |-> FALSE, fields |-> {}],
    [json |-> TRUE, fields |-> {<<"error", "invalid_grant">>}],
    [json |-> TRUE, fields |-> {<<"access_token", "tok">>}] }
Exchanges ==
  [pemOk : BOOLEAN, net : BOOLEAN, code : {StatusOK, StatusBadRequest}, body : TokenBodies]
\* the exchanges whose body, when it is read, carries a token
TokenExchanges == {x \in Exchanges : <<"access_token", "tok">> \in x.body.fields}

VARIABLES
  phase,           \* the process: "boot" (main before ListenAndServe), "serving", "exited"
  accessToken,     \* var accessToken
  ledger,          \* api_keys: key -> remaining_calls
  seeded,          \* the rows of api_keys as created out of band
  dbUp,            \* the store answers queries
  pc,              \* each request's position in its handler
  path,            \* r.URL.Path, which the mux dispatches on
  method,          \* r.Method
  apiKey,          \* r.Header.Get("x-api-key")
  scanned,         \* checkAndDecrementAPIKey's remainingCalls (the SELECT's result)
  remainingCalls,  \* the handler's remainingCalls (the call's first result)
  err,             \* the handler's err (the call's second result)
  dbCalls,         \* the statements and pings the request has sent to the store
  status,          \* the response status sent to the client, 0 before any
  rateHdr,         \* the X-RateLimit-Remaining response header, "" when unset
  contentType,     \* the Content-Type response header, "" when unset
  respText,        \* the text written by http.Error or Fprintf, in pieces
  upCode,          \* resp.StatusCode of the upstream's answer, 0 before any
  upBody,          \* the body the upstream emits for this request
  upPos,           \* bytes of upBody that sendRequest's io.ReadAll has read
  rdPos,           \* bytes of the buffered body consumed by reader.ReadBytes
  written,         \* what the client received of each w.Write, in order
  flushes          \* the number of Flush calls

vars == <<phase, accessToken, ledger, seeded, dbUp, pc, path, method, apiKey, scanned,
          remainingCalls, err, dbCalls, status, rateHdr, contentType, respText,
          upCode, upBody, upPos, rdPos, written, flushes>>

bootVars == <<phase, accessToken>>
reqVars == <<path, method, apiKey>>
quotaVars == <<scanned, remainingCalls, err, rateHdr>>
replyVars == <<status, contentType, respText>>
streamVars == <<upBody, upPos, rdPos, written, flushes>>

\* ------------------------------------------------------------ pure helpers
Digits == <<"0", "1", "2", "3", "4", "5", "6", "7", "8", "9">>

RECURSIVE FmtNat(_)
FmtNat(n) == IF n < 10 THEN Digits[n + 1] ELSE FmtNat(n \div 10) \o Digits[(n % 10) + 1]

\* fmt.Sprintf("%d", n)
FmtD(n) == IF n < 0 THEN "-" \o FmtNat(0 - n) ELSE FmtNat(n)

\* db.QueryRow("SELECT remaining_calls ...").Scan(&remainingCalls)
QueryRow(led, up, k) ==
  IF ~up THEN [err |-> "storage", val |-> 0]
  ELSE IF k \notin DOMAIN led THEN [err |-> "ErrNoRows", val |-> 0]
  ELSE [err |-> "nil", val |-> led[k]]

\* AfterSelect with a missing row taken for an exhausted one
AfterSelectNoRowsAsZero(row) ==
  IF row.err # "nil" /\ row.err # "ErrNoRows"
    THEN [ret |-> TRUE, val |-> 0, err |-> row.err]
  ELSE IF row.val <= 0 THEN [ret |-> TRUE, val |-> 0, err |-> "nil"]
  ELSE [ret |-> FALSE, val |-> row.val, err |-> "nil"]

\* checkAndDecrementAPIKey after its SELECT: return, or go on to the UPDATE
AfterSelect(row) ==
  IF row.err # "nil"
    THEN IF row.err = "ErrNoRows"
           THEN [ret |-> TRUE, val |-> 0, err |-> "API key not found"]
           ELSE [ret |-> TRUE, val |-> 0, err |-> row.err]
  ELSE IF row.val <= 0 THEN [ret |-> TRUE, val |-> 0, err |-> "nil"]
  ELSE [ret |-> FALSE, val |-> row.val, err |-> "nil"]

\* db.Exec("UPDATE api_keys SET remaining_calls = remaining_calls - 1 ...")
ExecDecrement(led, k) == [led EXCEPT ![k] = @ - 1]

\* AfterUpdate returning the value read instead of the value left
AfterUpdateStale(up, sel) ==
  IF ~up THEN [val |-> 0, err |-> "storage"]
  ELSE [val |-> sel, err |-> "nil"]

\* checkAndDecrementAPIKey after its UPDATE
AfterUpdate(up, sel) ==
  IF ~up THEN [val |-> 0, err |-> "storage"]
  ELSE [val |-> sel - 1, err |-> "nil"]

\* AuthStatus rejecting only a missing key, open to any other error
AuthStatusFailOpen(rem, e) ==
  IF e = "API key not found" THEN StatusUnauthorized
  ELSE IF rem <= 0 /\ e = "nil" THEN StatusForbidden
  ELSE 0

\* AuthStatus letting a count of 0 through (< for <=)
AuthStatusAllowZero(rem, e) ==
  IF e # "nil" THEN StatusUnauthorized
  ELSE IF rem < 0 THEN StatusForbidden
  ELSE 0

\* the handler's use of the call's results: a rejection status, or 0 to go on
AuthStatus(rem, e) ==
  IF e # "nil" THEN StatusUnauthorized
  ELSE IF rem <= 0 THEN StatusForbidden
  ELSE 0

\* index of the first delim in s at or after position i + 1, 0 when none
RECURSIVE IndexFrom(_, _, _)
IndexFrom(s, i, delim) ==
  IF i >= Len(s) THEN 0
  ELSE IF s[i + 1] = delim THEN i + 1
  ELSE IndexFrom(s, i + 1, delim)

\* reader.ReadBytes('\n') on the bytes of s after position i
ReadBytes(s, i, delim) ==
  LET j == IndexFrom(s, i, delim)
  IN IF j = 0 THEN [line |-> SubSeq(s, i + 1, Len(s)), err |-> "EOF", pos |-> Len(s)]
     ELSE [line |-> SubSeq(s, i + 1, j), err |-> "nil", pos |-> j]

RECURSIVE Concat(_)
Concat(ss) == IF ss = <<>> THEN <<>> ELSE Head(ss) \o Concat(Tail(ss))

\* the upstream body cut after each newline; a last piece without one is a line too
RECURSIVE SplitLines(_)
SplitLines(s) ==
  IF s = <<>> THEN <<>>
  ELSE LET j == IndexFrom(s, 0, NL)
       IN IF j = 0 THEN <<s>>
          ELSE <<SubSeq(s, 1, j)>> \o SplitLines(SubSeq(s, j + 1, Len(s)))

Min(a, b) == IF a <= b THEN a ELSE b

\* the method and key checks at the head of handleForwardToEndpoint, key check gone
HeadStatusNoKeyCheck(m, k) ==
  IF m # "POST" THEN StatusMethodNotAllowed ELSE 0

\* the method and key checks at the head of handleForwardToEndpoint, key check first
HeadStatusKeyFirst(m, k) ==
  IF k = "" THEN StatusUnauthorized
  ELSE IF m # "POST" THEN StatusMethodNotAllowed
  ELSE 0

\* the method and key checks at the head of handleForwardToEndpoint: a rejection
\* status, or 0 to go on
HeadStatus(m, k) ==
  IF m # "POST" THEN StatusMethodNotAllowed
  ELSE IF k = "" THEN StatusUnauthorized
  ELSE 0

\* the text http.Error sends with a rejection status
ErrorText(st) ==
  IF st = StatusMethodNotAllowed THEN <<"Method not allowed">>
  ELSE IF st = StatusForbidden THEN <<"API key has no remaining calls">>
  ELSE IF st = StatusBadRequest THEN <<"Error reading request body">>
  ELSE <<"Invalid or expired API key">>

\* the url the handler builds with fmt.Sprintf
UpstreamURL ==
  <<"https://", Location, "-aiplatform.googleapis.com/v1/projects/", ProjectID,
    "/locations/", Location, "/publishers/anthropic/models/", Model,
    ":streamRawPredict">>

\* err.Error() of what sendRequest returns: client.Do's *url.Error names the
\* operation, the url and the cause; io.ReadAll's error is the cause alone
ErrorString(e) ==
  IF e = "transport" THEN <<"Post ">> \o UpstreamURL \o <<": ", "connection refused">>
  ELSE <<e>>

\* fmt.Sprintf("Request failed: %v", err)
RequestFailedText(e) == <<"Request failed: ">> \o ErrorString(e)

\* json.Unmarshal(body, &tokenResp): an absent field leaves AccessToken ""
Unmarshal(body) ==
  IF ~body.json THEN [err |-> "invalid JSON", token |-> ""]
  ELSE IF \E f \in body.fields : f[1] = "access_token"
    THEN [err |-> "nil", token |-> (CHOOSE f \in body.fields : f[1] = "access_token")[2]]
  ELSE [err |-> "nil", token |-> ""]

exchangeJWTForAccessToken(x) ==
  IF ~x.net THEN [err |-> "sending request", token |-> ""]
  ELSE IF x.code # StatusOK THEN [err |-> "token exchange failed", token |-> ""]
  ELSE LET u == Unmarshal(x.body)
       IN IF u.err # "nil" THEN [err |-> "parsing response", token |-> ""]
          ELSE [err |-> "nil", token |-> u.token]

GetAccessToken(x) ==
  IF ~x.pemOk THEN [err |-> "parsing private key", token |-> ""]
  ELSE LET r == exchangeJWTForAccessToken(x)
       IN IF r.err # "nil" THEN [err |-> "exchanging JWT for access token", token |-> ""]
          ELSE r

\* handleHealthCheck answering 200 whatever the ping says
HealthStatusAlwaysOK(up) == StatusOK

\* handleHealthCheck: the status after db.Ping()
HealthStatus(up) == IF ~up THEN StatusServiceUnavailable ELSE StatusOK

\* the copy loop going on to the next line after a failed Write
AfterWriteContinue(werr) == [stop |-> FALSE]

\* the copy loop after w.Write: break on an error
AfterWrite(werr) == [stop |-> werr # "nil"]

\* the status the first w.Write (or the handler's return) sends: no WriteHeader is
\* called, and resp.StatusCode is not read
StreamStatus(code) == StatusOK

\* -------------------------------------------------------------------- Init
Init ==
  /\ phase = "boot"
  /\ accessToken = ""
  /\ ledger \in [LedgerKeys -> 0..MaxCalls]
  /\ seeded = ledger
  /\ dbUp = TRUE
  /\ pc = [p \in Reqs |-> "idle"]
  /\ path = [p \in Reqs |-> ""]
  /\ method = [p \in Reqs |-> ""]
  /\ apiKey = [p \in Reqs |-> ""]
  /\ scanned = [p \in Reqs |-> 0]
  /\ remainingCalls = [p \in Reqs |-> 0]
  /\ err = [p \in Reqs |-> "nil"]
  /\ dbCalls = [p \in Reqs |-> 0]
  /\ status = [p \in Reqs |-> 0]
  /\ rateHdr = [p \in Reqs |-> ""]
  /\ contentType = [p \in Reqs |-> ""]
  /\ respText = [p \in Reqs |-> <<>>]
  /\ upCode = [p \in Reqs |-> 0]
  /\ upBody = [p \in Reqs |-> <<>>]
  /\ upPos = [p \in Reqs |-> 0]
  /\ rdPos = [p \in Reqs |-> 0]
  /\ written = [p \in Reqs |-> <<>>]
  /\ flushes = [p \in Reqs |-> 0]

\* ----------------------------------------------------------------- actions
\* http.Error(w, text, code)
HttpError(p, text, code) ==
  /\ status' = [status EXCEPT ![p] = code]
  /\ contentType' = [contentType EXCEPT ![p] = "text/plain; charset=utf-8"]
  /\ respText' = [respText EXCEPT ![p] = text]

\* main up to ListenAndServe: the token is obtained and stored, or main returns
Startup(exchanges) ==
  /\ phase = "boot"
  /\ \E x \in exchanges :
       LET r == GetAccessToken(x)
       IN IF r.err # "nil"
            THEN phase' = "exited" /\ accessToken' = accessToken
            ELSE phase' = "serving" /\ accessToken' = r.token
  /\ UNCHANGED <<ledger, seeded, dbUp, pc, reqVars, quotaVars, dbCalls, replyVars,
                 upCode, streamVars>>

\* the method and key checks at the head of handleForwardToEndpoint
Receive(p) ==
  /\ phase = "serving"
  /\ pc[p] = "idle"
  /\ \E m \in Methods, k \in HeaderKeys :
       /\ path' = [path EXCEPT ![p] = "/"]
       /\ method' = [method EXCEPT ![p] = m]
       /\ apiKey' = [apiKey EXCEPT ![p] = k]
       /\ LET st == HeadStatus(m, k)
          IN IF st # 0
               THEN /\ HttpError(p, IF st = StatusUnauthorized
                                      THEN <<"API key is required">>
                                      ELSE ErrorText(st), st)
                    /\ pc' = [pc EXCEPT ![p] = "done"]
               ELSE /\ pc' = [pc EXCEPT ![p] = "select"]
                    /\ UNCHANGED replyVars
  /\ UNCHANGED <<bootVars, ledger, seeded, dbUp, quotaVars, dbCalls, upCode, streamVars>>

\* handleHealthCheck, for a request the mux dispatches to "/health"
HealthCheck(p) ==
  /\ phase = "serving"
  /\ pc[p] = "idle"
  /\ \E m \in Methods :
       /\ path' = [path EXCEPT ![p] = "/health"]
       /\ method' = [method EXCEPT ![p] = m]
       /\ apiKey' = apiKey
  /\ dbCalls' = [dbCalls EXCEPT ![p] = @ + 1]
  /\ status' = [status EXCEPT ![p] = HealthStatus(dbUp)]
  /\ respText' = [respText EXCEPT ![p] = IF HealthStatus(dbUp) = StatusOK
                                           THEN <<"OK">>
                                           ELSE <<"Database connection failed">>]
  /\ pc' = [pc EXCEPT ![p] = "done"]
  /\ UNCHANGED <<bootVars, ledger, seeded, dbUp, quotaVars, contentType, upCode,
                 streamVars>>

\* checkAndDecrementAPIKey up to its SELECT, and the handler's checks when it returns
SelectRow(p) ==
  /\ pc[p] = "select"
  /\ dbCalls' = [dbCalls EXCEPT ![p] = @ + 1]
  /\ LET out == AfterSelect(QueryRow(ledger, dbUp, apiKey[p]))
     IN IF out.ret
          THEN /\ remainingCalls' = [remainingCalls EXCEPT ![p] = out.val]
               /\ err' = [err EXCEPT ![p] = out.err]
               /\ HttpError(p, ErrorText(AuthStatus(out.val, out.err)),
                            AuthStatus(out.val, out.err))
               /\ pc' = [pc EXCEPT ![p] = "done"]
               /\ scanned' = scanned
          ELSE /\ scanned' = [scanned EXCEPT ![p] = out.val]
               /\ pc' = [pc EXCEPT ![p] = "update"]
               /\ UNCHANGED <<remainingCalls, err, replyVars>>
  /\ UNCHANGED <<bootVars, ledger, seeded, dbUp, reqVars, rateHdr, upCode, streamVars>>

\* checkAndDecrementAPIKey's UPDATE and return, and the handler's checks and header
ExecUpdate(p) ==
  /\ pc[p] = "update"
  /\ dbCalls' = [dbCalls EXCEPT ![p] = @ + 1]
  /\ LET out == AfterUpdate(dbUp, scanned[p])
         st == AuthStatus(out.val, out.err)
     IN /\ ledger' = IF dbUp THEN ExecDecrement(ledger, apiKey[p]) ELSE ledger
        /\ remainingCalls' = [remainingCalls EXCEPT ![p] = out.val]
        /\ err' = [err EXCEPT ![p] = out.err]
        /\ IF st # 0
             THEN /\ HttpError(p, ErrorText(st), st)
                  /\ pc' = [pc EXCEPT ![p] = "done"]
                  /\ rateHdr' = rateHdr
             ELSE /\ rateHdr' = [rateHdr EXCEPT ![p] = FmtD(out.val)]
                  /\ pc' = [pc EXCEPT ![p] = "body"]
                  /\ UNCHANGED replyVars
  /\ UNCHANGED <<bootVars, seeded, dbUp, reqVars, scanned, upCode, streamVars>>

\* ReadBody giving the call back when the body cannot be read
ReadBodyRefund(p) ==
  /\ pc[p] = "body"
  /\ \E ok \in BOOLEAN :
       IF ok
         THEN /\ pc' = [pc EXCEPT ![p] = "send"]
              /\ UNCHANGED <<replyVars, err, ledger>>
         ELSE /\ pc' = [pc EXCEPT ![p] = "done"]
              /\ err' = [err EXCEPT ![p] = "body"]
              /\ ledger' = [ledger EXCEPT ![apiKey[p]] = @ + 1]
              /\ HttpError(p, ErrorText(StatusBadRequest), StatusBadRequest)
  /\ UNCHANGED <<bootVars, seeded, dbUp, reqVars, scanned, remainingCalls,
                 rateHdr, dbCalls, upCode, streamVars>>

\* io.ReadAll(r.Body)
ReadBody(p) ==
  /\ pc[p] = "body"
  /\ \E ok \in BOOLEAN :
       IF ok
         THEN /\ pc' = [pc EXCEPT ![p] = "send"]
              /\ UNCHANGED <<replyVars, err>>
         ELSE /\ pc' = [pc EXCEPT ![p] = "done"]
              /\ err' = [err EXCEPT ![p] = "body"]
              /\ HttpError(p, ErrorText(StatusBadRequest), StatusBadRequest)
  /\ UNCHANGED <<bootVars, ledger, seeded, dbUp, reqVars, scanned, remainingCalls,
                 rateHdr, dbCalls, upCode, streamVars>>

\* Dial ending the process when the call fails, as log.Fatalf would
DialFatal(p, resps) ==
  /\ pc[p] = "send"
  /\ \/ /\ pc' = [pc EXCEPT ![p] = "done"]
        /\ err' = [err EXCEPT ![p] = "transport"]
        /\ phase' = "exited"
        /\ UNCHANGED <<replyVars, upBody, upCode>>
     \/ \E r \in resps :
          /\ upBody' = [upBody EXCEPT ![p] = r.body]
          /\ upCode' = [upCode EXCEPT ![p] = r.code]
          /\ pc' = [pc EXCEPT ![p] = "readall"]
          /\ UNCHANGED <<replyVars, err, phase>>
  /\ UNCHANGED <<accessToken, ledger, seeded, dbUp, reqVars, scanned, remainingCalls,
                 rateHdr, dbCalls, upPos, rdPos, written, flushes>>

\* sendRequest: client.Do(req); the upstream answers with a status and a body, or
\* the call fails
Dial(p, resps) ==
  /\ pc[p] = "send"
  /\ \/ /\ pc' = [pc EXCEPT ![p] = "done"]
        /\ err' = [err EXCEPT ![p] = "transport"]
        /\ HttpError(p, RequestFailedText("transport"), StatusInternalServerError)
        /\ UNCHANGED <<upBody, upCode>>
     \/ \E r \in resps :
          /\ upBody' = [upBody EXCEPT ![p] = r.body]
          /\ upCode' = [upCode EXCEPT ![p] = r.code]
          /\ pc' = [pc EXCEPT ![p] = "readall"]
          /\ UNCHANGED <<replyVars, err>>
  /\ UNCHANGED <<bootVars, ledger, seeded, dbUp, reqVars, scanned, remainingCalls,
                 rateHdr, dbCalls, upPos, rdPos, written, flushes>>

\* sendRequest: io.ReadAll(resp.Body) takes what the upstream emits, one line at a
\* time, until end of stream; then the handler sets the stream headers and the reader
ReadAll(p) ==
  /\ pc[p] = "readall"
  /\ IF upPos[p] < Len(upBody[p])
       THEN \/ /\ upPos' = [upPos EXCEPT ![p] = ReadBytes(upBody[p], upPos[p], NL).pos]
               /\ UNCHANGED <<pc, replyVars, err>>
            \/ /\ pc' = [pc EXCEPT ![p] = "done"]
               /\ err' = [err EXCEPT ![p] = "unexpected EOF"]
               /\ HttpError(p, RequestFailedText("unexpected EOF"),
                            StatusInternalServerError)
               /\ upPos' = upPos
       ELSE /\ pc' = [pc EXCEPT ![p] = "copy"]
            /\ contentType' = [contentType EXCEPT ![p] = "text/event-stream"]
            /\ UNCHANGED <<upPos, status, respText, err>>
  /\ UNCHANGED <<bootVars, ledger, seeded, dbUp, reqVars, scanned, remainingCalls,
                 rateHdr, dbCalls, upCode, upBody, rdPos, written, flushes>>

\* the copy loop's decision on what ReadBytes returned: the line to write, or stop
LoopStep(r) == IF r.err # "nil" THEN [stop |-> TRUE, line |-> <<>>]
               ELSE [stop |-> FALSE, line |-> r.line]

\* one turn of the copy loop: ReadBytes, Write, Flush. A failed Write has delivered
\* some n < len(line) bytes, which the code does not look at
CopyLine(p) ==
  /\ pc[p] = "copy"
  /\ LET r == ReadBytes(upBody[p], rdPos[p], NL)
         step == LoopStep(r)
     IN /\ rdPos' = [rdPos EXCEPT ![p] = r.pos]
        /\ status' = [status EXCEPT ![p] = StreamStatus(upCode[p])]
        /\ IF step.stop
             THEN /\ pc' = [pc EXCEPT ![p] = "done"]
                  /\ err' = [err EXCEPT ![p] = r.err]
                  /\ UNCHANGED <<written, flushes>>
             ELSE \/ /\ written' = [written EXCEPT ![p] = Append(@, step.line)]
                     /\ flushes' = [flushes EXCEPT ![p] = @ + 1]
                     /\ UNCHANGED <<pc, err>>
                  \/ \E n \in 0..(Len(step.line) - 1) :
                       /\ written' = [written EXCEPT ![p] =
                                        IF n = 0 THEN @
                                        ELSE Append(@, SubSeq(step.line, 1, n))]
                       /\ err' = [err EXCEPT ![p] = "write"]
                       /\ pc' = [pc EXCEPT ![p] =
                                   IF AfterWrite("write").stop THEN "done" ELSE @]
                       /\ UNCHANGED flushes
  /\ UNCHANGED <<bootVars, ledger, seeded, dbUp, reqVars, scanned, remainingCalls,
                 rateHdr, dbCalls, contentType, respText, upCode, upBody, upPos>>

\* the store becomes unreachable, or reachable again
StoreFlip ==
  /\ dbUp' = ~dbUp
  /\ UNCHANGED <<bootVars, ledger, seeded, pc, reqVars, quotaVars, dbCalls, replyVars,
                 upCode, streamVars>>

Handler(p, resps) ==
  \/ Receive(p)
  \/ HealthCheck(p)
  \/ SelectRow(p)
  \/ ExecUpdate(p)
  \/ ReadBody(p)
  \/ Dial(p, resps)
  \/ ReadAll(p)
  \/ CopyLine(p)

\* concurrent requests, behind a token endpoint whose answers carry a token
Next ==
  \/ Startup(TokenExchanges)
  \/ \E p \in Reqs : Handler(p, ShortResps)
  \/ StoreFlip

Spec == Init /\ [][Next]_vars

\* no other request is inside checkAndDecrementAPIKey on the key of p
Uncontended(p) ==
  \A q \in Reqs \ {p} : ~(pc[q] = "update" /\ apiKey[q] = apiKey[p])

\* concurrent requests whose calls of checkAndDecrementAPIKey on one key do not overlap
SerialNext ==
  \/ Startup(TokenExchanges)
  \/ \E p \in Reqs :
       \/ Receive(p)
       \/ HealthCheck(p)
       \/ Uncontended(p) /\ SelectRow(p)
       \/ ExecUpdate(p)
       \/ ReadBody(p)
       \/ Dial(p, ShortResps)
       \/ ReadAll(p)
       \/ CopyLine(p)
  \/ StoreFlip

SerialSpec == Init /\ [][SerialNext]_vars

\* one request, every upstream answer up to MaxBody bytes, every token exchange
StreamNext == Startup(Exchanges) \/ Handler(1, Resps) \/ StoreFlip

StreamSpec == Init /\ [][StreamNext]_vars

\* ------------------------------------------------------ what a client sees
\* p is a POST carrying a non-empty key, so it calls checkAndDecrementAPIKey
Calls(p) == path[p] = "/" /\ method[p] = "POST" /\ apiKey[p] # ""

\* the call of checkAndDecrementAPIKey made by p has returned
Returned(p) == Calls(p) /\ pc[p] \notin {"idle", "select", "update"}

\* the call made by p returned an error (the handler answers 401 and returns)
CallFailed(p) == Returned(p) /\ pc[p] = "done" /\ status[p] = StatusUnauthorized

\* p passed the quota check: it was not rejected with 401, 403 or 405
Passed(p) ==
  /\ Returned(p)
  /\ \/ pc[p] \in {"body", "send", "readall", "copy"}
     \/ pc[p] = "done" /\ status[p] \in {StatusOK, StatusBadRequest, StatusInternalServerError}

\* the key of p names no record of the ledger
Unknown(p) == Calls(p) /\ apiKey[p] \notin DOMAIN ledger

\* the reference behaviour of check-and-decrement on a stored value n
RefCheckAndDecrement(n) ==
  IF n > 0 THEN [val |-> n - 1, stored |-> n - 1] ELSE [val |-> 0, stored |-> n]

\* the lines sendRequest has taken from the upstream and the handler has not yet
\* written to the client
Pending(p) == Len(SplitLines(SubSeq(upBody[p], 1, upPos[p]))) - Len(written[p])

\* ------------------------------------------------------------------ claims
\* C1: under any interleaving of requests, the stored remaining_calls of a key that
\* started non-negative is never negative.
C1_NeverNegative == \A k \in LedgerKeys : seeded[k] >= 0 => ledger[k] >= 0

\* C2: when c calls on one key with remaining_calls = n < c have all returned
\* without a storage error, exactly n of them observed a non-zero result.
C2_ExactlyNObserve ==
  \A k \in LedgerKeys :
    LET callers == {p \in Reqs : Calls(p) /\ apiKey[p] = k}
    IN (/\ Cardinality(callers) > seeded[k]
        /\ \A p \in callers : Returned(p) /\ ~CallFailed(p))
       => Cardinality({p \in callers : remainingCalls[p] # 0}) = seeded[k]

\* C3: a call that performs the decrement returns the stored remaining_calls as it
\* is immediately after its own update.
C3_ReturnsStoredValue ==
  [][\A p \in Reqs :
       (pc[p] = "update" /\ pc'[p] # "update" /\ dbUp)
       => remainingCalls'[p] = ledger'[apiKey[p]]]_vars

\* C4: with calls on a key served one after the other, of the requests answered for
\* a key seeded with n the first n pass the quota check and report n-1, ..., 0 in
\* X-RateLimit-Remaining, and every later one receives 403.
C4_SequentialQuota ==
  \A k \in LedgerKeys :
    LET answered == {p \in Reqs : Returned(p) /\ apiKey[p] = k /\ ~CallFailed(p)}
        passed == {p \in answered : Passed(p)}
    IN /\ Cardinality(passed) = Min(Cardinality(answered), seeded[k])
       /\ {rateHdr[p] : p \in passed}
            = {FmtD(seeded[k] - j) : j \in 1..Cardinality(passed)}
       /\ \A p \in answered \ passed : status[p] = StatusForbidden

\* C5: the stored remaining_calls of a key has dropped by exactly the number of
\* requests with that key that passed the quota check.
C5_OnePerPassedRequest ==
  \A k \in LedgerKeys :
    seeded[k] - ledger[k] = Cardinality({p \in Reqs : Passed(p) /\ apiKey[p] = k})

\* C6: a call of checkAndDecrementAPIKey that no other call on its key overlaps,
\* with the store up, does what the reference does on the stored value n: for n > 0
\* it returns n-1 and stores n-1, for n = 0 it returns 0, no error, and stores n.
C6_MatchesReference ==
  [][\A p \in Reqs :
       LET k == apiKey[p]
       IN /\ (pc[p] = "select" /\ pc'[p] # "select" /\ dbUp /\ k \in DOMAIN ledger)
             => /\ ledger'[k] = ledger[k]
                /\ IF ledger[k] > 0
                     THEN pc'[p] = "update" /\ scanned'[p] = ledger[k]
                     ELSE /\ remainingCalls'[p] = RefCheckAndDecrement(ledger[k]).val
                          /\ err'[p] = "nil"
                          /\ ledger'[k] = RefCheckAndDecrement(ledger[k]).stored
          /\ (pc[p] = "update" /\ pc'[p] # "update" /\ dbUp)
             => /\ scanned[p] = ledger[k]
                /\ ledger[k] > 0
                /\ remainingCalls'[p] = RefCheckAndDecrement(ledger[k]).val
                /\ err'[p] = "nil"
                /\ ledger'[k] = RefCheckAndDecrement(ledger[k]).stored]_vars

\* C6 witness: one request has returned from a decrement with the value now stored,
\* another has returned 0 from an exhausted key
C6_Witness ==
  \E p, q \in Reqs :
    /\ pc[p] = "body" /\ remainingCalls[p] = ledger[apiKey[p]]
    /\ remainingCalls[p] = seeded[apiKey[p]] - 1
    /\ pc[q] = "done" /\ status[q] = StatusForbidden /\ scanned[q] = 0
    /\ seeded[apiKey[q]] = 0 /\ ledger[apiKey[q]] = 0

\* C7: the relay is incremental: of the lines taken from the upstream, at most one
\* is waiting to be written to the client.
C7_Incremental == \A p \in Reqs : pc[p] \in {"readall", "copy"} => Pending(p) <= 1

\* C8: when the copy loop ends at end of stream, the client has received the lines
\* of the upstream body, each as one write followed by one flush, in order and
\* unaltered, so the writes concatenate to the upstream body.
C8_EveryLineRelayed ==
  \A p \in Reqs :
    (pc[p] = "done" /\ status[p] = StatusOK /\ err[p] = "EOF")
    => /\ written[p] = SplitLines(upBody[p])
       /\ Concat(written[p]) = upBody[p]
       /\ flushes[p] = Len(written[p])

\* C9: a request whose SELECT or UPDATE meets an unreachable store is answered 401
\* and returns at once: it is not forwarded and the ledger is not changed.
C9_FailClosed ==
  [][\A p \in Reqs :
       (pc[p] \in {"select", "update"} /\ pc'[p] # pc[p] /\ ~dbUp)
       => /\ status'[p] = StatusUnauthorized
          /\ pc'[p] = "done"
          /\ ledger' = ledger]_vars

\* C9 witness: a request whose UPDATE failed after a successful SELECT got 401,
\* and one whose SELECT failed got 401
C9_Witness ==
  \E p, q \in Reqs :
    /\ pc[p] = "done" /\ err[p] = "storage" /\ scanned[p] > 0
    /\ status[p] = StatusUnauthorized
    /\ pc[q] = "done" /\ err[q] = "storage" /\ scanned[q] = 0
    /\ status[q] = StatusUnauthorized

\* C10: a POST whose key names no record never gets past the SELECT, is answered
\* 401 and nothing else, and changes no row: while only such requests have arrived
\* the ledger is as it was seeded.
C10_UnknownKeyUnauthorized ==
  /\ \A p \in Reqs :
       Unknown(p) => /\ pc[p] \in {"select", "done"}
                     /\ status[p] = IF pc[p] = "done" THEN StatusUnauthorized ELSE 0
                     /\ scanned[p] = 0 /\ rateHdr[p] = ""
  /\ (\A p \in Reqs : pc[p] = "idle" \/ Unknown(p)) => ledger = seeded

\* C10 witness: with the store up, a request with an unknown key was answered 401
\* for "API key not found"
C10_Witness ==
  \E p \in Reqs :
    /\ Unknown(p) /\ pc[p] = "done" /\ err[p] = "API key not found"
    /\ status[p] = StatusUnauthorized

\* ---------------------------------------------------------- C11 .. C20
\* p was dispatched to handleForwardToEndpoint
Forwarded(p) == path[p] = "/"

\* sendRequest has called client.Do for p
Issued(p) ==
  \/ pc[p] \in {"readall", "copy"}
  \/ pc[p] = "done" /\ Forwarded(p)
       /\ (status[p] = StatusInternalServerError \/ contentType[p] = "text/event-stream")

\* the handler of p has reached the streaming step
Streaming(p) == contentType[p] = "text/event-stream"

\* the UPDATE of p has decremented its key's row
Decremented(p) ==
  /\ Returned(p) /\ scanned[p] > 0
  /\ ~(pc[p] = "done" /\ status[p] = StatusUnauthorized)

\* every variable of request q
ReqState(q) ==
  <<pc[q], path[q], method[q], apiKey[q], scanned[q], remainingCalls[q], err[q],
    dbCalls[q], status[q], rateHdr[q], contentType[q], respText[q], upCode[q],
    upBody[q], upPos[q], rdPos[q], written[q], flushes[q]>>

IsPrefix(a, b) == Len(a) <= Len(b) /\ SubSeq(b, 1, Len(a)) = a

\* the pieces of text that are internal: the upstream url and its parts, the error
\* causes, the bearer token
InternalPieces ==
  {UpstreamURL[i] : i \in DOMAIN UpstreamURL}
    \cup {"connection refused", "unexpected EOF", "Post ", accessToken}

\* C11: a POST to "/" with no (or an empty) x-api-key is answered 401 and has sent
\* nothing to the store.
C11_NoKeyNoStorage ==
  \A p \in Reqs :
    (Forwarded(p) /\ method[p] = "POST" /\ apiKey[p] = "")
    => /\ pc[p] = "done"
       /\ status[p] = StatusUnauthorized
       /\ dbCalls[p] = 0 /\ scanned[p] = 0

\* C11 witness: such a request was answered 401 while the store was down
C11_Witness ==
  \E p \in Reqs :
    /\ Forwarded(p) /\ method[p] = "POST" /\ apiKey[p] = ""
    /\ status[p] = StatusUnauthorized /\ ~dbUp

\* C12: a request to "/" with another method than POST is answered 405 whatever
\* its key, has sent nothing to the store and has called no upstream; while only
\* such requests have arrived the ledger is as seeded.
C12_MethodNotAllowed ==
  /\ \A p \in Reqs :
       (Forwarded(p) /\ method[p] # "POST")
       => /\ pc[p] = "done"
          /\ status[p] = StatusMethodNotAllowed
          /\ dbCalls[p] = 0 /\ scanned[p] = 0 /\ rateHdr[p] = ""
          /\ ~Issued(p) /\ upCode[p] = 0
  /\ (\A p \in Reqs : pc[p] = "idle" \/ (Forwarded(p) /\ method[p] # "POST"))
     => ledger = seeded

\* C12 witness: a GET carrying a key with calls left was answered 405, and one
\* carrying no key too
C12_Witness ==
  \E p, q \in Reqs :
    /\ Forwarded(p) /\ method[p] = "GET" /\ apiKey[p] \in LedgerKeys
    /\ ledger[apiKey[p]] > 0 /\ status[p] = StatusMethodNotAllowed
    /\ Forwarded(q) /\ method[q] = "GET" /\ apiKey[q] = ""
    /\ status[q] = StatusMethodNotAllowed

\* C13: the server never serves with an empty bearer token (the exchange having
\* failed whenever the answer carries no access_token).
C13_NeverServesWithoutToken == phase = "serving" => accessToken # ""

\* C14: a 500 response carries a generic message only: no piece of it is the
\* underlying error, the upstream url, the project or the token.
C14_GenericFailureBody ==
  \A p \in Reqs :
    status[p] = StatusInternalServerError
    => \A i \in DOMAIN respText[p] : respText[p][i] \notin InternalPieces

\* C15: the token slot is written at startup only, before any request is taken; a
\* step in which a request fails leaves the token, the process, the ledger and
\* every other request as they were.
C15_FailuresIsolated ==
  [][/\ phase # "boot" => (accessToken' = accessToken /\ phase' = phase)
     /\ phase = "boot" => \A p \in Reqs : pc[p] = "idle" /\ pc'[p] = "idle"
     /\ \A p \in Reqs :
          (/\ pc[p] # "done" /\ pc'[p] = "done"
           /\ \/ status'[p] \in {StatusBadRequest, StatusUnauthorized,
                                 StatusInternalServerError, StatusServiceUnavailable}
              \/ err'[p] = "write")
          => /\ ledger' = ledger
             /\ \A q \in Reqs \ {p} : ReqState(q)' = ReqState(q)]_vars

\* C15 witness: one request failed on the upstream call, another was relayed, and
\* the server still serves with the token of startup
C15_Witness ==
  \E p, q \in Reqs :
    /\ pc[p] = "done" /\ status[p] = StatusInternalServerError
    /\ pc[q] = "done" /\ Streaming(q) /\ status[q] = StatusOK /\ written[q] # <<>>
    /\ phase = "serving" /\ accessToken = "tok"

\* C16: the probe answers 503 when the ping fails and 200 otherwise, whatever the
\* method, and changes neither the ledger nor the token.
C16_ProbeReflectsPing ==
  [][\A p \in Reqs :
       (pc[p] = "idle" /\ path'[p] = "/health")
       => /\ status'[p] = IF dbUp THEN StatusOK ELSE StatusServiceUnavailable
          /\ pc'[p] = "done"
          /\ ledger' = ledger /\ accessToken' = accessToken /\ phase' = phase]_vars

\* C16 witness: a POST probe was answered 503 and a GET probe 200
C16_Witness ==
  \E p, q \in Reqs :
    /\ path[p] = "/health" /\ method[p] = "POST"
    /\ status[p] = StatusServiceUnavailable
    /\ path[q] = "/health" /\ method[q] = "GET" /\ status[q] = StatusOK

\* C17: the steps of a request come in order: the store is asked only for a POST
\* with a key; the upstream is called only after the two statements returned a
\* positive count without error; stream headers and lines come only after
\* sendRequest returned the whole answer without error.
C17_StepsInOrder ==
  \A p \in Reqs :
    /\ dbCalls[p] > 0 /\ Forwarded(p) => method[p] = "POST" /\ apiKey[p] # ""
    /\ (pc[p] \in {"body", "send"} \/ Issued(p))
       => /\ method[p] = "POST" /\ apiKey[p] # ""
          /\ dbCalls[p] = 2
          /\ remainingCalls[p] > 0
          /\ rateHdr[p] = FmtD(remainingCalls[p])
    /\ (Streaming(p) \/ written[p] # <<>>)
       => /\ Streaming(p) /\ Issued(p)
          /\ pc[p] \in {"copy", "done"}
          /\ upPos[p] = Len(upBody[p])
          /\ err[p] \notin {"transport", "unexpected EOF"}

\* C17 witness: a request went through every step to the end of the stream
C17_Witness ==
  \E p \in Reqs :
    /\ pc[p] = "done" /\ Streaming(p) /\ err[p] = "EOF"
    /\ Len(written[p]) = 2 /\ status[p] = StatusOK

\* C18 as stated: after a failed write the loop has ended, the process serves on,
\* no error text was added, and the client holds whole lines of the upstream body.
C18_WholeLinesOnly ==
  \A p \in Reqs :
    err[p] = "write"
    => /\ pc[p] = "done" /\ phase = "serving"
       /\ respText[p] = <<>>
       /\ IsPrefix(written[p], SplitLines(upBody[p]))

\* C18 amended: after a failed write the loop has ended, the process serves on, no
\* error text was added and no later line was written: the client holds the lines
\* written before the failure, then at most a proper part of the line whose write
\* failed.
C18_PrefixUpToFailedLine ==
  \A p \in Reqs :
    err[p] = "write"
    => LET lines == SplitLines(upBody[p])
           m == flushes[p]
       IN /\ pc[p] = "done" /\ phase = "serving"
          /\ respText[p] = <<>>
          /\ m < Len(lines)
          /\ rdPos[p] = Len(Concat(SubSeq(lines, 1, m + 1)))
          /\ SubSeq(written[p], 1, m) = SubSeq(lines, 1, m)
          /\ \/ Len(written[p]) = m
             \/ /\ Len(written[p]) = m + 1
                /\ IsPrefix(written[p][m + 1], lines[m + 1])
                /\ Len(written[p][m + 1]) < Len(lines[m + 1])
          /\ IsPrefix(Concat(written[p]), upBody[p])

\* C18 witness: the write of the second line failed after a part of it went out
C18_Witness ==
  \E p \in Reqs :
    /\ err[p] = "write" /\ pc[p] = "done"
    /\ flushes[p] = 1 /\ Len(written[p]) = 2

\* C19: no call is given back: the stored count of a key is what was seeded less
\* one for every request that decremented it, and a request that passed the quota
\* check, failed afterwards or not, is one of those.
C19_NeverRefunded ==
  \A k \in LedgerKeys :
    /\ ledger[k] = seeded[k] - Cardinality({p \in Reqs : Decremented(p) /\ apiKey[p] = k})
    /\ \A p \in Reqs : Passed(p) => Decremented(p)

\* C19 witness: a request that passed got 400, another 500, and their calls stay
\* consumed
C19_Witness ==
  \E p, q \in Reqs :
    /\ pc[p] = "done" /\ status[p] = StatusBadRequest
    /\ pc[q] = "done" /\ status[q] = StatusInternalServerError
    /\ ledger[apiKey[p]] < seeded[apiKey[p]]
    /\ ledger[apiKey[q]] < seeded[apiKey[q]]

\* C20: a request at the streaming step answers 200 with Content-Type
\* text/event-stream whatever the upstream's status, and when its loop has reached
\* the end of the stream the client holds the upstream's body.
C20_StatusHiddenBodyRelayed ==
  \A p \in Reqs :
    Streaming(p)
    => /\ pc[p] \in {"copy", "done"}
       /\ status[p] = IF pc[p] = "done" \/ rdPos[p] > 0 THEN StatusOK ELSE 0
       /\ IsPrefix(Concat(written[p]), upBody[p])
       /\ (pc[p] = "done" /\ err[p] = "EOF") => Concat(written[p]) = upBody[p]

====
